---------------------------- MODULE Spec2Model ----------------------------
(***************************************************************************)
(* A model of the ReadingAge text-analysis object (src/src/gruntfile.js,   *)
(* lines 44-467): tokenizer, syllable estimator, parseText, deepParseText. *)
(*                                                                         *)
(* A JavaScript string is a sequence of one-character strings.  Every      *)
(* function of ReadingAge is pure; the state machine below calls one of    *)
(* them on an input drawn from a bounded set and records what it returned  *)
(* (or threw).                                                             *)
(***************************************************************************)
EXTENDS Integers, Sequences, FiniteSets, TLC

VARIABLES op, arg, ret

vars == <<op, arg, ret>>

---------------------------------------------------------------------------
(* Bounds of the model.                                                    *)

MaxWordLen == 4

MaxTextLen == 5

MaxPieces == 4

MaxSentences == 3

MaxListLen == 6

MaxTopN == 6

---------------------------------------------------------------------------
(* Character classes of the regular expressions.                           *)

Lower == <<"a","b","c","d","e","f","g","h","i","j","k","l","m",
           "n","o","p","q","r","s","t","u","v","w","x","y","z">>

Upper == <<"A","B","C","D","E","F","G","H","I","J","K","L","M",
           "N","O","P","Q","R","S","T","U","V","W","X","Y","Z">>

Digits == <<"0","1","2","3","4","5","6","7","8","9">>

\* [a-z]
LowerLetters == {Lower[i] : i \in 1..26}

\* [A-Z]
UpperLetters == {Upper[i] : i \in 1..26}

\* [A-Za-z]
IsLetter(c) == c \in LowerLetters \/ c \in UpperLetters

\* \s restricted to the ASCII white space characters
IsWhitespace(c) == c \in {" ", "\t", "\n", "\r", "\f"}

\* [aeiouy]
IsVowel(c) == c \in {"a", "e", "i", "o", "u", "y"}

\* [\.!\?]
IsTerminator(c) == c \in {".", "!", "?"}

\* String.prototype.toLowerCase on one character (ASCII)
LowerChar(c) ==
    IF c \in UpperLetters
    THEN Lower[CHOOSE i \in 1..26 : c = Upper[i]]
    ELSE c

toLowerCase(s) == [i \in 1..Len(s) |-> LowerChar(s[i])]

\* String.prototype.toUpperCase on one character (ASCII)
UpperChar(c) ==
    IF c \in LowerLetters
    THEN Upper[CHOOSE i \in 1..26 : c = Lower[i]]
    ELSE c

\* s from position i (1-based) to its end
From(s, i) == SubSeq(s, i, Len(s))

\* s.search(/[A-Za-z]/) !== -1
HasLetter(s) == \E i \in 1..Len(s) : IsLetter(s[i])

\* s.search(/\s/g) !== -1
HasWhitespace(s) == \E i \in 1..Len(s) : IsWhitespace(s[i])

---------------------------------------------------------------------------
(* Results of a call: a returned value or a thrown exception.              *)

Returned(v) == [ok |-> TRUE, val |-> v]

Thrown(e) == [ok |-> FALSE, val |-> e]

---------------------------------------------------------------------------
(* getNumSyllablesInWord                                                   *)

\* word.lastIndexOf('le'), 0-based, -1 when absent
lastIndexOfLe(word) ==
    LET hits == {i \in 1..(Len(word) - 1) : word[i] = "l" /\ word[i + 1] = "e"}
    IN  IF hits = {} THEN -1
        ELSE (CHOOSE i \in hits : \A j \in hits : j <= i) - 1

\* s ends with the two characters a, b
EndsWith2(s, a, b) == Len(s) >= 2 /\ s[Len(s) - 1] = a /\ s[Len(s)] = b

\* word.replace(/(es|ed|e)$/, ""): the leftmost match wins, so "es" and "ed"
\* are removed whole before a lone final "e" is tried
stripFinalSuffix(word) ==
    IF EndsWith2(word, "e", "s") \/ EndsWith2(word, "e", "d")
    THEN SubSeq(word, 1, Len(word) - 2)
    ELSE IF Len(word) >= 1 /\ word[Len(word)] = "e"
         THEN SubSeq(word, 1, Len(word) - 1)
         ELSE word

\* word.replace(/[aeiouy]+/g, "a")
RECURSIVE collapseVowels(_)
collapseVowels(word) ==
    IF word = <<>> THEN <<>>
    ELSE IF IsVowel(Head(word))
         THEN IF Len(word) >= 2 /\ IsVowel(word[2])
              THEN collapseVowels(Tail(word))
              ELSE <<"a">> \o collapseVowels(Tail(word))
         ELSE <<Head(word)>> \o collapseVowels(Tail(word))

\* word.match(/[aeiouy]/g): null (counted 0) or the matches' number
countVowels(word) == Cardinality({i \in 1..Len(word) : IsVowel(word[i])})

\* syllableRules with the conversion to lower case left out
syllableRulesCaseSensitive(word) ==
    LET stripped == IF lastIndexOfLe(word) # Len(word) - 2
                    THEN stripFinalSuffix(word)
                    ELSE word
    IN  countVowels(collapseVowels(stripped))

\* the rules after the three-letter short cut
syllableRules(word) ==
    LET lower == toLowerCase(word)
        stripped == IF lastIndexOfLe(lower) # Len(lower) - 2
                    THEN stripFinalSuffix(lower)
                    ELSE lower
    IN  countVowels(collapseVowels(stripped))

\* getNumSyllablesInWord with the short cut taken below three letters only
getNumSyllablesInWordBelowThree(word) ==
    IF Len(word) = 0 THEN Thrown("Empty string.")
    ELSE IF HasWhitespace(word) THEN Thrown("Contains whitespace.")
    ELSE IF Len(word) < 3 THEN Returned(1)
    ELSE Returned(syllableRules(word))

getNumSyllablesInWord(word) ==
    IF Len(word) = 0 THEN Thrown("Empty string.")
    ELSE IF HasWhitespace(word) THEN Thrown("Contains whitespace.")
    ELSE IF Len(word) <= 3 THEN Returned(1)
    ELSE Returned(syllableRules(word))

---------------------------------------------------------------------------
(* Tokenizer: trimNonLetters, getWords, getSentences                       *)

\* str.replace("\n", " "): a string pattern replaces the first occurrence only
replaceFirstNewline(str) ==
    IF \E i \in 1..Len(str) : str[i] = "\n"
    THEN LET i == CHOOSE k \in 1..Len(str) :
                      str[k] = "\n" /\ \A j \in 1..(k - 1) : str[j] # "\n"
         IN  [str EXCEPT ![i] = " "]
    ELSE str

\* str.replace(/^[^A-Za-z]+/g, "")
RECURSIVE trimLeading(_)
trimLeading(str) ==
    IF str # <<>> /\ ~IsLetter(Head(str)) THEN trimLeading(Tail(str)) ELSE str

\* str.replace(/[^A-Za-z]+$/g, "")
RECURSIVE trimTrailing(_)
trimTrailing(str) ==
    IF str # <<>> /\ ~IsLetter(str[Len(str)])
    THEN trimTrailing(SubSeq(str, 1, Len(str) - 1))
    ELSE str

trimNonLetters(str) == trimTrailing(trimLeading(replaceFirstNewline(str)))

\* The array index a property name denotes (0-based), or -1: a canonical
\* decimal numeral, without a leading zero unless it is "0" itself
RECURSIVE decimalValue(_)
decimalValue(s) ==
    IF s = <<>> THEN 0
    ELSE 10 * decimalValue(SubSeq(s, 1, Len(s) - 1))
         + (CHOOSE d \in 0..9 : Digits[d + 1] = s[Len(s)])

arrayIndexOf(name) ==
    IF /\ name # <<>>
       /\ \A i \in 1..Len(name) : \E d \in 1..10 : name[i] = Digits[d]
       /\ (Len(name) > 1 => name[1] # "0")
    THEN decimalValue(name)
    ELSE -1

\* ary.forEach(function (i) { if (typeof ary[i] === "string") ary[i] = trim }):
\* the callback's first argument is the ELEMENT, which is then used as a
\* property name of the array.  ary[element] is a string only when the element
\* spells an index of the array; that entry (not the visited one) is trimmed.
\* k is the 1-based position forEach visits next; elements are read live.
RECURSIVE trimFrom(_, _)
trimFrom(ary, k) ==
    IF k > Len(ary) THEN ary
    ELSE LET idx == arrayIndexOf(ary[k])
         IN  IF idx # -1 /\ idx < Len(ary)
             THEN trimFrom([ary EXCEPT ![idx + 1] = trimNonLetters(ary[idx + 1])],
                           k + 1)
             ELSE trimFrom(ary, k + 1)

trimNonLettersFromArray(ary) == trimFrom(ary, 1)

\* the while loop of findFirstEmptyWord from (0-based) i; -1 when none
RECURSIVE findFrom(_, _)
findFrom(ary, i) ==
    IF i < Len(ary)
    THEN IF ~HasLetter(ary[i + 1]) THEN i ELSE findFrom(ary, i + 1)
    ELSE -1

\* findFirstEmptyWord looking for a zero-length entry instead of a letterless one
findFirstZeroLengthWord(ary) ==
    LET hits == {i \in 0..(Len(ary) - 1) : Len(ary[i + 1]) = 0}
    IN  IF hits = {} THEN -1 ELSE CHOOSE i \in hits : \A j \in hits : i <= j

findFirstEmptyWord(ary) == findFrom(ary, 0)

\* ary.splice(position, 1), position 0-based
splice1(ary, position) ==
    SubSeq(ary, 1, position) \o SubSeq(ary, position + 2, Len(ary))

\* do { ... } while (position !== -1)
RECURSIVE removeEmptyWords(_)
removeEmptyWords(ary) ==
    LET position == findFirstEmptyWord(ary)
    IN  IF position # -1 THEN removeEmptyWords(splice1(ary, position)) ELSE ary

\* text.replace(/\n+/g, " ")
RECURSIVE replaceNewlineRuns(_)
replaceNewlineRuns(text) ==
    IF text = <<>> THEN <<>>
    ELSE IF Head(text) = "\n"
         THEN IF Len(text) >= 2 /\ text[2] = "\n"
              THEN replaceNewlineRuns(Tail(text))
              ELSE <<" ">> \o replaceNewlineRuns(Tail(text))
         ELSE <<Head(text)>> \o replaceNewlineRuns(Tail(text))

\* text.split(" "): one piece more than there are spaces, empty pieces kept
RECURSIVE splitAtSpaces(_)
splitAtSpaces(text) ==
    IF \E i \in 1..Len(text) : text[i] = " "
    THEN LET i == CHOOSE k \in 1..Len(text) :
                      text[k] = " " /\ \A j \in 1..(k - 1) : text[j] # " "
         IN  <<SubSeq(text, 1, i - 1)>> \o splitAtSpaces(From(text, i + 1))
    ELSE <<text>>

\* Line 199, text.replace(/\s+/g, " "), computes a string that is dropped:
\* strings are immutable and the result is not assigned, so it has no effect.
getWords(text) ==
    IF Len(text) = 0 THEN <<>>
    ELSE removeEmptyWords(
             trimNonLettersFromArray(splitAtSpaces(replaceNewlineRuns(text))))

\* The end (1-based, inclusive) of the match of /\(?[^\.\?\!]+[\.!\?]\)?/
\* that starts at position i of text, or 0 when none starts there.  The
\* optional "(" is tried taken first, then not taken; the run of
\* non-terminators is greedy and must be followed by one terminator.
matchEndAt(text, i) ==
    LET n == Len(text)
        runEnd(r) ==   \* last position of the maximal run starting at r, or 0
            IF r > n \/ IsTerminator(text[r]) THEN 0
            ELSE CHOOSE j \in r..n :
                     /\ \A k \in r..j : ~IsTerminator(text[k])
                     /\ (j = n \/ IsTerminator(text[j + 1]))
        endFrom(r) ==
            LET j == runEnd(r)
            IN  IF j = 0 \/ j = n THEN 0
                ELSE IF j + 2 <= n /\ text[j + 2] = ")" THEN j + 2 ELSE j + 1
        withParen == IF i <= n /\ text[i] = "(" THEN endFrom(i + 1) ELSE 0
    IN  IF withParen # 0 THEN withParen ELSE endFrom(i)

\* text.match(/.../g) from position p on: every match, left to right, each
\* search resuming after the previous match
RECURSIVE matchAll(_, _)
matchAll(text, p) ==
    LET starts == {i \in p..Len(text) : matchEndAt(text, i) # 0}
    IN  IF starts = {} THEN <<>>
        ELSE LET i == CHOOSE k \in starts : \A j \in starts : k <= j
                 e == matchEndAt(text, i)
             IN  <<SubSeq(text, i, e)>> \o matchAll(text, e + 1)

\* text.match(/\(?[^\.\?\!]+$/g): the leftmost position from which only
\* non-terminators run to the end of the text; <<>> stands for null
finalFragment(text) ==
    LET starts == {i \in 1..Len(text) :
                       \A k \in i..Len(text) : ~IsTerminator(text[k])}
    IN  IF starts = {} THEN <<>>
        ELSE From(text, CHOOSE k \in starts : \A j \in starts : k <= j)

getSentences(text) ==
    IF Len(text) = 0 THEN <<>>
    ELSE LET t == replaceNewlineRuns(text)
             matches == matchAll(t, 1)
             finalMatch == finalFragment(t)
         IN  IF finalMatch # <<>> THEN Append(matches, finalMatch) ELSE matches

---------------------------------------------------------------------------
(* JavaScript numbers that parseText computes: quotients of counts and     *)
(* linear combinations of them with decimal coefficients.  A finite value  *)
(* is kept as an exact fraction in lowest terms (IEEE-754 rounding is not  *)
(* modelled); NaN and the infinities are values of their own.              *)

RECURSIVE gcd(_, _)
gcd(a, b) == IF b = 0 THEN a ELSE gcd(b, a % b)

abs(x) == IF x < 0 THEN -x ELSE x

NaN == [kind |-> "NaN", n |-> 0, d |-> 0]

Infinity(sign) == [kind |-> "Infinity", n |-> sign, d |-> 0]

\* the number n / d, d > 0
Fin(n, d) ==
    LET g == gcd(abs(n), d)
    IN  [kind |-> "finite", n |-> n \div g, d |-> d \div g]

isNaN(x) == x.kind = "NaN"

\* divide with a zero denominator guarded: the quotient is then 0
divideGuarded(n, d) == IF d = 0 THEN Fin(0, 1) ELSE Fin(n, d)

\* n / d for two counts (non-negative integers): 0/0 is NaN, n/0 is Infinity
divide(n, d) ==
    IF d = 0 THEN (IF n = 0 THEN NaN ELSE Infinity(1)) ELSE Fin(n, d)

\* (cn / cd) * x for a non-zero decimal coefficient cn / cd, cd > 0
times(cn, cd, x) ==
    IF x.kind = "NaN" THEN NaN
    ELSE IF x.kind = "Infinity" THEN Infinity(IF cn < 0 THEN -x.n ELSE x.n)
    ELSE Fin(cn * x.n, cd * x.d)

\* x + y
plus(x, y) ==
    IF x.kind = "NaN" \/ y.kind = "NaN" THEN NaN
    ELSE IF x.kind = "Infinity" /\ y.kind = "Infinity"
         THEN (IF x.n = y.n THEN x ELSE NaN)
    ELSE IF x.kind = "Infinity" THEN x
    ELSE IF y.kind = "Infinity" THEN y
    ELSE Fin(x.n * y.d + y.n * x.d, x.d * y.d)

\* x - y
minus(x, y) == plus(x, times(-1, 1, y))

\* -1, 0, 1 for a number that is not NaN
signOf(x) == IF x.n < 0 THEN -1 ELSE IF x.n > 0 THEN 1 ELSE 0

---------------------------------------------------------------------------
(* parseText                                                               *)

\* the number of syllables from which a word counts as complex
ComplexWordSyllables == 3

\* forEach with try/catch: a word whose estimate throws is logged and adds
\* nothing to the result
RECURSIVE getNumSyllablesPerWord(_)
getNumSyllablesPerWord(aryOfWords) ==
    IF aryOfWords = <<>> THEN <<>>
    ELSE LET r == getNumSyllablesInWord(Head(aryOfWords))
         IN  (IF r.ok THEN <<r.val>> ELSE <<>>)
             \o getNumSyllablesPerWord(Tail(aryOfWords))

\* the (0-based) indexes of the entries that are 3 or higher, from index i on
RECURSIVE complexFrom(_, _)
complexFrom(aryOfNumSyllables, i) ==
    IF i >= Len(aryOfNumSyllables) THEN <<>>
    ELSE (IF aryOfNumSyllables[i + 1] >= ComplexWordSyllables THEN <<i>> ELSE <<>>)
         \o complexFrom(aryOfNumSyllables, i + 1)

getComplexWordPositions(aryOfNumSyllables) == complexFrom(aryOfNumSyllables, 0)

\* aryOfWords[value] for every (0-based) position
getComplexWords(aryOfWords, aryOfComplexWordPositions) ==
    [k \in 1..Len(aryOfComplexWordPositions) |->
        aryOfWords[aryOfComplexWordPositions[k] + 1]]

RECURSIVE arrayAdd(_)
arrayAdd(ary) == IF ary = <<>> THEN 0 ELSE Head(ary) + arrayAdd(Tail(ary))

\* 206.835 - 1.015 * averageWordsPerSentence - 84.6 * averageSyllablesPerWord
readingEase(aws, asw) ==
    minus(minus(Fin(206835, 1000), times(1015, 1000, aws)), times(846, 10, asw))

\* 0.39 * averageWordsPerSentence + 11.8 * averageSyllablesPerWord - 15.59
gradeLevel(aws, asw) ==
    minus(plus(times(39, 100, aws), times(118, 10, asw)), Fin(1559, 100))

\* 0.4 * (averageWordsPerSentence + 100 * complexWordRatio)
fogIndex(aws, cwr) == times(4, 10, plus(aws, times(100, 1, cwr)))

\* The record parseText returns.  smogIndex (a square root, read by no other
\* field) is left out.  Each local of the code is bound to its value where
\* the code assigns it, so that every later line reads the same value.
parseText(text) ==
    LET result(sentences, words, syllables, complexWordPositions,
               aws, asw, cwr) ==
            [source |-> text,
             sentences |-> sentences,
             numSentences |-> Len(sentences),
             words |-> words,
             numWords |-> Len(words),
             syllables |-> syllables,
             numSyllables |-> arrayAdd(syllables),
             complexWordPositions |-> complexWordPositions,
             numComplexWords |-> Len(complexWordPositions),
             complexWords |-> getComplexWords(words, complexWordPositions),
             averageWordsPerSentence |-> aws,
             averageSyllablesPerWord |-> asw,
             complexWordRatio |-> cwr,
             complexWordsPerSentence |->
                 divide(Len(complexWordPositions), Len(sentences)),
             fleschKincaidReadingEase |-> readingEase(aws, asw),
             fleschKincaidGradeLevel |-> gradeLevel(aws, asw),
             gunningFogIndex |-> fogIndex(aws, cwr)]
    IN  CHOOSE parsed \in
            {result(sentences, words, syllables, complexWordPositions,
                    aws, asw, cwr) :
                <<sentences, words, syllables, complexWordPositions,
                  aws, asw, cwr>> \in
                    {<<s, w, y, p, divide(Len(w), Len(s)),
                       divide(arrayAdd(y), Len(w)), divide(Len(p), Len(w))>> :
                        <<s, w, y, p>> \in
                            {<<s, w, y, getComplexWordPositions(y)>> :
                                <<s, w, y>> \in
                                    {<<getSentences(text), w,
                                       getNumSyllablesPerWord(w)>> :
                                        w \in {getWords(text)}}}}} : TRUE

---------------------------------------------------------------------------
(* deepParseText                                                           *)

\* b.fleschKincaidGradeLevel - a.fleschKincaidGradeLevel
sortFleschKincaidGradeLevelDescending(a, b) ==
    minus(b.fleschKincaidGradeLevel, a.fleschKincaidGradeLevel)

\* SortCompare of Array.prototype.sort: a NaN from the comparator counts as +0
sortCompare(a, b) ==
    LET v == sortFleschKincaidGradeLevelDescending(a, b)
    IN  IF isNaN(v) THEN 0 ELSE signOf(v)

\* Insertion sort, one step: x moves left past every entry that must follow it
RECURSIVE insertFromBack(_, _)
insertFromBack(ary, x) ==
    IF ary = <<>> THEN <<x>>
    ELSE IF sortCompare(ary[Len(ary)], x) > 0
         THEN Append(insertFromBack(SubSeq(ary, 1, Len(ary) - 1), x), ary[Len(ary)])
         ELSE Append(ary, x)

RECURSIVE insertionSort(_)
insertionSort(ary) ==
    IF ary = <<>> THEN <<>>
    ELSE insertFromBack(insertionSort(SubSeq(ary, 1, Len(ary) - 1)), ary[Len(ary)])

\* Merge of two sorted runs: the left entry goes first unless it must follow
RECURSIVE merge(_, _)
merge(left, right) ==
    IF left = <<>> THEN right
    ELSE IF right = <<>> THEN left
    ELSE IF sortCompare(Head(left), Head(right)) <= 0
         THEN <<Head(left)>> \o merge(Tail(left), right)
         ELSE <<Head(right)>> \o merge(left, Tail(right))

RECURSIVE mergeSort(_)
mergeSort(ary) ==
    IF Len(ary) <= 1 THEN ary
    ELSE LET mid == Len(ary) \div 2
         IN  merge(mergeSort(SubSeq(ary, 1, mid)),
                   mergeSort(SubSeq(ary, mid + 1, Len(ary))))

\* What ary.sort(sortFleschKincaidGradeLevelDescending) may leave in ary.
\* ECMA-262 (Array.prototype.sort) asks for a stable sort and fixes the
\* order only when the comparator is a consistent comparison function, which
\* one that returns NaN is not; the order is then implementation-defined.
\* The outcomes are those of the stable sorts engines run, insertion sort
\* (short arrays) and merge sort: they agree whenever the comparator is
\* consistent, and may differ when it is not.
sortOutcomes(ary) == {insertionSort(ary), mergeSort(ary)}

\* parseText of every sentence, in the sentences' order
parseSentences(sentences) == [i \in 1..Len(sentences) |-> parseText(sentences[i])]

\* result.parsedSentences = sorted, the other fields of result kept
withParsedSentences(result, sorted) ==
    [f \in DOMAIN result \cup {"parsedSentences"} |->
        IF f = "parsedSentences" THEN sorted ELSE result[f]]

\* The results deepParseText may return: parseText's record with
\* parsedSentences added.  parseText of a string never throws, so the catch
\* and rethrow of the loop is never entered.
deepParseText(text) ==
    LET result == parseText(text)
    IN  {withParsedSentences(result, sorted) :
             sorted \in sortOutcomes(parseSentences(result.sentences))}

---------------------------------------------------------------------------
(* toHTML: the 'Most Complex Sentences' list.  The three sections before   *)
(* it (Basic Stats, Averages, Reading Ease Scores) print fields of         *)
(* parsedResults and do not read numComplexSentences; they are left out of *)
(* the modelled result.                                                    *)

\* the value numComplexSentences takes when the argument is undefined
DefaultNumComplexSentences == 5

RECURSIVE pow10(_)
pow10(k) == IF k = 0 THEN 1 ELSE 10 * pow10(k - 1)

\* Math.round(num * Math.pow(10, decimalPlaces)) / Math.pow(10, decimalPlaces);
\* Math.round(x) is the integer floor(x + 1/2)
round(num, decimalPlaces) ==
    IF num.kind # "finite" THEN num
    ELSE LET scale == pow10(decimalPlaces)
         IN  Fin((2 * num.n * scale + num.d) \div (2 * num.d), scale)

\* an argument that was passed, and one that was left out
Given(v) == [given |-> TRUE, value |-> v]

Undefined == [given |-> FALSE, value |-> 0]

\* '<li>FKGL ' + round(fleschKincaidGradeLevel, 3) + ": " + source + '</li>'
listEntry(subResult) ==
    [fkgl |-> round(subResult.fleschKincaidGradeLevel, 3),
     source |-> subResult.source]

\* parsedSentences.every(callback) from (0-based) index i on: the callback
\* pushes the entry of index i first and then answers whether to go on
RECURSIVE everyFrom(_, _, _)
everyFrom(parsedSentences, i, numComplexSentences) ==
    IF i >= Len(parsedSentences) THEN <<>>
    ELSE <<listEntry(parsedSentences[i + 1])>>
         \o (IF i < numComplexSentences - 1
             THEN everyFrom(parsedSentences, i + 1, numComplexSentences)
             ELSE <<>>)

\* listed: whether the section is printed; entries: its <li> items in order
toHTML(parsedResults, numComplexSentences) ==
    LET n == IF numComplexSentences.given
             THEN numComplexSentences.value
             ELSE DefaultNumComplexSentences
    IN  IF "parsedSentences" \in DOMAIN parsedResults
        THEN [listed |-> TRUE,
              entries |-> everyFrom(parsedResults.parsedSentences, 0, n)]
        ELSE [listed |-> FALSE, entries |-> <<>>]

---------------------------------------------------------------------------
(* The state machine: a caller that is idle, or has called one function    *)
(* of ReadingAge on arg and holds what it returned in ret.                 *)

\* Every string over alphabet of length at most n
StringsUpTo(alphabet, n) == UNION {[1..k -> alphabet] : k \in 0..n}

\* Every concatenation of at most n strings of pieces
RECURSIVE Concat(_, _)
Concat(list, i) ==
    IF i > Len(list) THEN <<>> ELSE list[i] \o Concat(list, i + 1)

ConcatsUpTo(pieces, n) == {Concat(list, 1) : list \in StringsUpTo(pieces, n)}

\* inputs of getNumSyllablesInWord
Words ==
    StringsUpTo({"a", "e", "l", "s", "d", "E", " "}, MaxWordLen)

\* inputs of trimNonLetters
TrimTexts == StringsUpTo({"a", ",", " ", "\n"}, MaxTextLen)

\* inputs of getWords
WordTexts == StringsUpTo({"a", ",", " ", "\n", "0", "1"}, MaxTextLen)

\* inputs of getSentences
SentenceTexts == StringsUpTo({"a", "\n", ".", "?", "(", ")"}, MaxTextLen)

\* inputs of parseText
ParseTexts ==
    ConcatsUpTo({<<"a">>, <<"a", "\t", "b">>, <<"a", "b", "a", "b", "a">>,
                 <<" ">>, <<".">>, <<"0">>},
                MaxPieces)

\* inputs of deepParseText
DeepTexts ==
    ConcatsUpTo({<<"a", ".">>, <<"b", ".">>, <<" ", "a", " ", "a", ".">>,
                 <<"a", "b", "a", "b", "a", ".">>, <<"0", ".">>, <<" ">>},
                MaxSentences)

\* the per-sentence results the lists handed to toHTML are made of
SentenceResults == {parseText(<<"a", ".">>), parseText(<<"0", ".">>)}

\* inputs of toHTML: a parseText result (no parsedSentences), or one with a
\* list of per-sentence results added
ParsedResults ==
    LET whole == parseText(<<"a", ".", "0", ".">>)
    IN  {whole} \cup {withParsedSentences(whole, list) :
                         list \in StringsUpTo(SentenceResults, MaxListLen)}

\* the numComplexSentences arguments of toHTML
TopNs == {Undefined} \cup {Given(n) : n \in 0..MaxTopN}

Init == op = "idle" /\ arg = <<>> /\ ret = Returned(0)

Call_getNumSyllablesInWord ==
    /\ op = "idle"
    /\ \E word \in Words :
        /\ op' = "getNumSyllablesInWord"
        /\ arg' = word
        /\ ret' = getNumSyllablesInWord(word)

Call_trimNonLetters ==
    /\ op = "idle"
    /\ \E str \in TrimTexts :
        /\ op' = "trimNonLetters"
        /\ arg' = str
        /\ ret' = Returned(trimNonLetters(str))

Call_getWords ==
    /\ op = "idle"
    /\ \E text \in WordTexts :
        /\ op' = "getWords"
        /\ arg' = text
        /\ ret' = Returned(getWords(text))

Call_getSentences ==
    /\ op = "idle"
    /\ \E text \in SentenceTexts :
        /\ op' = "getSentences"
        /\ arg' = text
        /\ ret' = Returned(getSentences(text))

Call_parseText ==
    /\ op = "idle"
    /\ \E text \in ParseTexts :
        /\ op' = "parseText"
        /\ arg' = text
        /\ ret' = Returned(parseText(text))

Call_deepParseText ==
    /\ op = "idle"
    /\ \E text \in DeepTexts :
        \E result \in deepParseText(text) :
            /\ op' = "deepParseText"
            /\ arg' = text
            /\ ret' = Returned(result)

Call_toHTML ==
    /\ op = "idle"
    /\ \E parsedResults \in ParsedResults, numComplexSentences \in TopNs :
        /\ op' = "toHTML"
        /\ arg' = <<parsedResults, numComplexSentences>>
        /\ ret' = Returned(toHTML(parsedResults, numComplexSentences))

\* the caller drops the result and is ready for the next call
Return ==
    /\ op # "idle"
    /\ op' = "idle"
    /\ arg' = <<>>
    /\ ret' = Returned(0)

NextSyllables == Call_getNumSyllablesInWord \/ Return

NextTokenizer == Call_trimNonLetters \/ Call_getWords \/ Call_getSentences \/ Return

NextAnalyzer == Call_parseText \/ Call_deepParseText \/ Return

NextReport == Call_toHTML \/ Return

Next == NextSyllables \/ NextTokenizer \/ NextAnalyzer \/ NextReport

SpecSyllables == Init /\ [][NextSyllables]_vars

SpecTokenizer == Init /\ [][NextTokenizer]_vars

SpecAnalyzer == Init /\ [][NextAnalyzer]_vars

SpecReport == Init /\ [][NextReport]_vars

Spec == Init /\ [][Next]_vars

---------------------------------------------------------------------------
(* Properties of the syllable estimator.                                   *)

\* C6 as stated: every string of length <= 3 (the empty string and strings
\* with white space included) is estimated at exactly 1 syllable.
C6_ShortStringsAreOne ==
    (op = "getNumSyllablesInWord" /\ Len(arg) <= 3) => ret = Returned(1)

\* C6 amended: a non-empty string of length <= 3 without white space is
\* estimated at exactly 1 syllable; the empty string and a string of length
\* <= 3 with white space make getNumSyllablesInWord throw.
C6_ShortWordsAreOne ==
    (op = "getNumSyllablesInWord" /\ Len(arg) <= 3) =>
        IF arg # <<>> /\ ~HasWhitespace(arg) THEN ret = Returned(1) ELSE ~ret.ok

\* A three-letter word the longer rules would estimate differently got 1.
C6_Witness ==
    /\ op = "getNumSyllablesInWord"
    /\ Len(arg) = 3
    /\ ~HasWhitespace(arg)
    /\ syllableRules(arg) # 1
    /\ ret = Returned(1)

\* every spelling of word in upper and lower case letters
RECURSIVE CaseVariants(_)
CaseVariants(word) ==
    IF word = <<>> THEN {<<>>}
    ELSE {<<c>> \o rest : c \in {LowerChar(Head(word)), UpperChar(Head(word))},
                          rest \in CaseVariants(Tail(word))}

AllLetters(s) == \A i \in 1..Len(s) : IsLetter(s[i])

\* C7: for a non-empty word of ASCII letters the estimate is a non-negative
\* integer, and every upper/lower-case variant of the word gets the same one.
C7_CaseInvariant ==
    (op = "getNumSyllablesInWord" /\ arg # <<>> /\ AllLetters(arg)) =>
        /\ ret.ok
        /\ ret.val \in Nat
        /\ \A v \in CaseVariants(arg) : getNumSyllablesInWord(v) = ret

\* A mixed-case word of four letters went through the rules and got 2.
C7_Witness ==
    /\ op = "getNumSyllablesInWord"
    /\ Len(arg) = 4
    /\ AllLetters(arg)
    /\ arg # toLowerCase(arg)
    /\ ret = Returned(2)

---------------------------------------------------------------------------
(* Properties of the tokenizer.                                            *)

\* C1: every word getWords returns begins and ends with an ASCII letter.
C1_WordsAreTrimmed ==
    op = "getWords" =>
        \A k \in 1..Len(ret.val) :
            /\ ret.val[k] # <<>>
            /\ IsLetter(ret.val[k][1])
            /\ IsLetter(ret.val[k][Len(ret.val[k])])

\* C5: trimNonLetters applied to its own result changes nothing.
C5_TrimIdempotent ==
    op = "trimNonLetters" => trimNonLetters(ret.val) = ret.val

\* the separators of getWords: a space, or a new line (turned into a space)
IsSeparator(c) == c = " " \/ c = "\n"

\* the start positions of the maximal separator-free pieces of text that hold
\* a letter, in text order
LetterTokenStarts(text) ==
    {i \in 1..Len(text) :
        /\ ~IsSeparator(text[i])
        /\ (i = 1 \/ IsSeparator(text[i - 1]))
        /\ \E k \in i..Len(text) :
               IsLetter(text[k]) /\ \A j \in i..k : ~IsSeparator(text[j])}

\* the piece that starts at position i
TokenAt(text, i) ==
    LET e == CHOOSE k \in i..Len(text) :
                 /\ \A j \in i..k : ~IsSeparator(text[j])
                 /\ (k = Len(text) \/ IsSeparator(text[k + 1]))
    IN  SubSeq(text, i, e)

\* the k-th smallest element of a set of integers
RECURSIVE Nth(_, _)
Nth(S, k) ==
    LET m == CHOOSE x \in S : \A y \in S : x <= y
    IN  IF k = 1 THEN m ELSE Nth(S \ {m}, k - 1)

\* C8: every token getWords returns holds an ASCII letter; the tokens with a
\* letter are all kept, in text order (each as it stands or trimmed), the
\* others are removed; getWords("") is the empty list.
C8_WordsHaveLetters ==
    op = "getWords" =>
        LET starts == LetterTokenStarts(arg)
        IN  /\ \A k \in 1..Len(ret.val) : HasLetter(ret.val[k])
            /\ Len(ret.val) = Cardinality(starts)
            /\ \A k \in 1..Len(ret.val) :
                   LET token == TokenAt(arg, Nth(starts, k))
                   IN  ret.val[k] \in {token, trimNonLetters(token)}
            /\ (arg = <<>> => ret.val = <<>>)

\* Two words were kept and a non-empty token without a letter was removed
\* from between them.
C8_Witness ==
    /\ op = "getWords"
    /\ Len(ret.val) = 2
    /\ \E i \in 1..Len(arg) :
           /\ ~IsSeparator(arg[i]) /\ ~IsLetter(arg[i])
           /\ i > 1 /\ IsSeparator(arg[i - 1])
           /\ i < Len(arg) /\ IsSeparator(arg[i + 1])
           /\ HasLetter(SubSeq(arg, 1, i - 1))
           /\ HasLetter(From(arg, i + 1))

RECURSIVE SumLen(_)
SumLen(ss) == IF ss = <<>> THEN 0 ELSE Len(Head(ss)) + SumLen(Tail(ss))

\* C10: the sentences getSentences returns are consecutive non-overlapping
\* pieces of the newline-collapsed text, in text order, so their lengths sum
\* to no more than the text's length.
C10_SentencesDoNotOverlap ==
    op = "getSentences" =>
        LET t == replaceNewlineRuns(arg)
            n == Len(ret.val)
        IN  /\ SumLen(ret.val) <= Len(arg)
            /\ \E pos \in [1..n -> 1..Len(t)] :
                   /\ \A k \in 1..n :
                          ret.val[k] = SubSeq(t, pos[k], pos[k] + Len(ret.val[k]) - 1)
                   /\ \A k \in 1..(n - 1) : pos[k] + Len(ret.val[k]) <= pos[k + 1]

---------------------------------------------------------------------------
(* Properties of parseText and deepParseText.                              *)

\* C2: words and syllables have the same length, and syllables[i] is the
\* estimate of words[i].
C2_SyllablesMatchWords ==
    op = "parseText" =>
        /\ Len(ret.val.syllables) = Len(ret.val.words)
        /\ \A i \in 1..Len(ret.val.words) :
               getNumSyllablesInWord(ret.val.words[i]) = Returned(ret.val.syllables[i])

\* C3: complexWordPositions are strictly increasing indexes into words, each
\* of a word whose own estimate is >= 3, and complexWords are those words.
C3_ComplexWordsAreComplex ==
    op = "parseText" =>
        LET r == ret.val
            cp == r.complexWordPositions
        IN  /\ \A k \in 1..(Len(cp) - 1) : cp[k] < cp[k + 1]
            /\ \A k \in 1..Len(cp) :
                   /\ cp[k] >= 0 /\ cp[k] < Len(r.words)
                   /\ getNumSyllablesInWord(r.words[cp[k] + 1]).ok
                   /\ getNumSyllablesInWord(r.words[cp[k] + 1]).val >= ComplexWordSyllables
            /\ Len(r.complexWords) = Len(cp)
            /\ \A k \in 1..Len(cp) : r.complexWords[k] = r.words[cp[k] + 1]

\* C9 as stated: with zero sentences or zero words the four ratios are NaN.
C9_RatiosAreNaN ==
    (op = "parseText" /\ (ret.val.numSentences = 0 \/ ret.val.numWords = 0)) =>
        /\ ret.ok
        /\ isNaN(ret.val.averageWordsPerSentence)
        /\ isNaN(ret.val.averageSyllablesPerWord)
        /\ isNaN(ret.val.complexWordRatio)
        /\ isNaN(ret.val.complexWordsPerSentence)

\* C9 amended: with zero sentences or zero words parseText returns (nothing
\* is thrown); the ratios per word, averageSyllablesPerWord and
\* complexWordRatio, are NaN; the ratios per sentence, averageWordsPerSentence
\* and complexWordsPerSentence, are NaN when there is no sentence and 0 when
\* there is one (a text without a sentence has no word).
C9_ZeroCountRatios ==
    (op = "parseText" /\ (ret.val.numSentences = 0 \/ ret.val.numWords = 0)) =>
        /\ ret.ok
        /\ ret.val.numWords = 0
        /\ isNaN(ret.val.averageSyllablesPerWord)
        /\ isNaN(ret.val.complexWordRatio)
        /\ IF ret.val.numSentences = 0
           THEN /\ isNaN(ret.val.averageWordsPerSentence)
                /\ isNaN(ret.val.complexWordsPerSentence)
           ELSE /\ ret.val.averageWordsPerSentence = Fin(0, 1)
                /\ ret.val.complexWordsPerSentence = Fin(0, 1)

\* A text with sentences and no word was parsed.
C9_Witness ==
    /\ op = "parseText"
    /\ ret.val.numWords = 0
    /\ ret.val.numSentences >= 1
    /\ isNaN(ret.val.averageSyllablesPerWord)

\* x >= y for two numbers that are not NaN
geq(x, y) == signOf(minus(x, y)) >= 0

\* C4: parsedSentences hold the per-sentence results ordered by
\* non-increasing grade level, results of equal grade level in their original
\* order; a result whose grade level is NaN is compared with no other, and
\* the others are still in order.
C4_SortedByGradeLevel ==
    op = "deepParseText" =>
        LET sorted == ret.val.parsedSentences
            original == parseSentences(ret.val.sentences)
            n == Len(original)
            grade(r) == r.fleschKincaidGradeLevel
        IN  /\ Len(sorted) = n
            /\ \E p \in {q \in [1..n -> 1..n] : \A i, j \in 1..n : q[i] = q[j] => i = j} :
                   /\ \A k \in 1..n : sorted[k] = original[p[k]]
                   /\ \A i, j \in 1..n :
                          (i < j /\ ~isNaN(grade(sorted[i])) /\ ~isNaN(grade(sorted[j]))) =>
                              /\ geq(grade(sorted[i]), grade(sorted[j]))
                              /\ (grade(sorted[i]) = grade(sorted[j]) => p[i] < p[j])

---------------------------------------------------------------------------
(* Properties of toHTML.                                                   *)

Min(a, b) == IF a <= b THEN a ELSE b

\* C11: the 'Most Complex Sentences' list holds exactly
\* min(N, len(parsedSentences)) entries, those of the front of
\* parsedSentences in order, for every N >= 0; N is 5 when it is left out.
C11_ListsTopN ==
    (op = "toHTML" /\ ret.val.listed) =>
        LET parsedSentences == arg[1].parsedSentences
            N == IF arg[2].given THEN arg[2].value ELSE 5
            count == Min(N, Len(parsedSentences))
        IN  /\ Len(ret.val.entries) = count
            /\ \A k \in 1..count :
                   ret.val.entries[k].source = parsedSentences[k].source

===========================================================================
